---- MODULE Spec2Model ----
(***************************************************************************)
(* monitorcontrol: the VCP feature-code registry (vcp/vcp_codes.py), the   *)
(* VCP session base class (vcp/vcp_abc.py) and the typed accessors of      *)
(* Monitor (monitorcontrol.py).                                            *)
(*                                                                         *)
(* Python exceptions are named by the error taxonomy of the specification: *)
(*   NotOpen              AssertionError (assert self._in_ctx)             *)
(*   NotReadable          TypeError("code is not readable")                *)
(*   InvalidValue         ValueError of Enum(value)                        *)
(*   UnknownName          AttributeError of getattr(Enum, name)            *)
(*   UnsupportedValueType TypeError("unsupported ...")                     *)
(*   OutOfSpecInputSource InputSourceValueError (carries .value)           *)
(*   DuplicateName / DuplicateValue   ValueError of add_vcp_code           *)
(*   NotFound / InvalidKeyType        LookupError / TypeError of lookup    *)
(***************************************************************************)
EXTENDS Integers, Sequences, FiniteSets, TLC

VARIABLES
    registry,       \* vcp_codes.__VCP_CODES: the process-wide list of VCPCode
    reg_last,       \* observation of the last registry call
    in_ctx,         \* VCP._in_ctx
    code_maximum,   \* VCP.code_maximum: opcode -> cached maximum
    session_reads,  \* transport reads issued by _get_code_maximum, per opcode,
                    \* since the session was last opened (observation only)
    last,           \* observation of the last session / accessor call
    platform,       \* sys.platform of the process
    sessions,       \* the VCPs the last discovery call returned, as the caller
                    \* holds (and uses) them
    disc_last       \* observation of the last discovery call

vars == <<registry, reg_last, in_ctx, code_maximum, session_reads, last,
          platform, sessions, disc_last>>

(***************************************************************************)
(* Bounds of the model.                                                    *)
(***************************************************************************)
\* how many fresh (non colliding) names and opcodes a caller may register
MaxUserCodes == 2
\* cap of the session_reads observation counter
MaxSessionReads == 2
\* wire values 0..MaxWire are passed by callers and reported by the device
\* (one past HDMI2 = 0x12, the last MCCS input source)
MaxWire == 19
\* how many displays the platform enumeration finds at most
MaxDisplays == 2

(***************************************************************************)
(* vcp_codes.py: VCPCodeType, VCPCodeFunction, VCPCode                     *)
(***************************************************************************)
VCPCodeType == {"ro", "wo", "rw"}

VCPCodeFunction == {"c", "nc"}

VCPCode(name, desc, value, type, function) ==
    [name |-> name, desc |-> desc, value |-> value, type |-> type,
     function |-> function]

\* a plausible slip: "readable unless write-only" turned into "read-write only"
readable_rw_only(code) == code.type = "rw"

readable(code) == code.type = "ro" \/ code.type = "rw"

writeable(code) == code.type = "wo" \/ code.type = "rw"

\* The preloaded table (opcodes in decimal: 0x04, 0x10, 0x12, 0x14, 0x52,
\* 0x60, 0xAA, 0xD6).
VCP_CODES ==
    << VCPCode("image_factory_default", "restore factory default image", 4, "wo", "nc"),
       VCPCode("image_luminance", "image luminance", 16, "rw", "c"),
       VCPCode("image_contrast", "image contrast", 18, "rw", "c"),
       VCPCode("image_color_preset", "image color preset", 20, "rw", "c"),
       VCPCode("active_control", "active control", 82, "ro", "nc"),
       VCPCode("input_select", "input select", 96, "rw", "nc"),
       VCPCode("image_orientation", "image orientation", 170, "ro", "nc"),
       VCPCode("display_power_mode", "display power mode", 214, "rw", "nc") >>

(***************************************************************************)
(* Caller supplied values are tagged with their Python type:               *)
(*   t = "int" (v), "str" (s), "enum" (member s of class cls), "float" (v).*)
(***************************************************************************)
IntV(v) == [t |-> "int", cls |-> "", s |-> "", v |-> v]

StrV(s) == [t |-> "str", cls |-> "", s |-> s, v |-> 0]

EnumV(cls, m) == [t |-> "enum", cls |-> cls, s |-> m.name, v |-> m.value]

FloatV(v) == [t |-> "float", cls |-> "", s |-> "", v |-> v]

(***************************************************************************)
(* vcp_codes.get_vcp_code: the first entry whose name (string key) or      *)
(* value (integer key) equals the key.                                     *)
(***************************************************************************)
RECURSIVE get_vcp_code_from(_, _, _)
get_vcp_code_from(codes, key, i) ==
    IF i > Len(codes) THEN [err |-> "NotFound", code |-> codes[1]]
    ELSE IF key.t = "str" /\ codes[i].name = key.s THEN [err |-> "", code |-> codes[i]]
    ELSE IF key.t = "int" /\ codes[i].value = key.v THEN [err |-> "", code |-> codes[i]]
    ELSE get_vcp_code_from(codes, key, i + 1)

get_vcp_code(codes, key) ==
    IF ~(key.t = "str" \/ key.t = "int")
    THEN [err |-> "InvalidKeyType", code |-> codes[1]]
    ELSE get_vcp_code_from(codes, key, 1)

(***************************************************************************)
(* vcp_codes.add_vcp_code: walk the list; the first entry that shares the  *)
(* name, or else the value, raises; only after the whole walk is the new   *)
(* code appended.                                                          *)
(***************************************************************************)
RECURSIVE add_vcp_code_scan(_, _, _)
add_vcp_code_scan(codes, newcode, i) ==
    IF i > Len(codes) THEN ""
    ELSE IF newcode.name = codes[i].name THEN "DuplicateName"
    ELSE IF newcode.value = codes[i].value THEN "DuplicateValue"
    ELSE add_vcp_code_scan(codes, newcode, i + 1)

\* a plausible slip: the name is checked, the value is not
RECURSIVE add_vcp_code_scan_name_only(_, _, _)
add_vcp_code_scan_name_only(codes, newcode, i) ==
    IF i > Len(codes) THEN ""
    ELSE IF newcode.name = codes[i].name THEN "DuplicateName"
    ELSE add_vcp_code_scan_name_only(codes, newcode, i + 1)

\* a plausible slip: the code is appended before the collision is reported
add_vcp_code_append_first(codes, newcode) ==
    [err |-> add_vcp_code_scan(codes, newcode, 1), codes |-> Append(codes, newcode)]

\* the value check dropped
add_vcp_code_name_only(codes, newcode) ==
    LET err == add_vcp_code_scan_name_only(codes, newcode, 1)
    IN  [err |-> err, codes |-> IF err = "" THEN Append(codes, newcode) ELSE codes]

add_vcp_code(codes, newcode) ==
    LET err == add_vcp_code_scan(codes, newcode, 1)
    IN  [err |-> err, codes |-> IF err = "" THEN Append(codes, newcode) ELSE codes]

(***************************************************************************)
(* Inputs of the registry calls.                                           *)
(***************************************************************************)
UserNames == <<"user_a", "user_b", "user_c", "user_d">>

\* names a caller registers: a preloaded one and MaxUserCodes fresh ones
NewNames == {"image_luminance"} \cup {UserNames[i] : i \in 1..MaxUserCodes}

\* opcodes a caller registers: 0x04, 0xD6 (preloaded) and 0xE0.. (fresh)
NewValues == {4, 214} \cup {223 + i : i \in 1..MaxUserCodes}

NewCodes == {VCPCode(n, "user code", v, t, "nc") :
                n \in NewNames, v \in NewValues, t \in {"ro", "wo"}}

LookupKeys == {StrV(n) : n \in NewNames \cup {"active_control"}}
              \cup {IntV(v) : v \in NewValues \cup {4, 82}}
              \cup {FloatV(16)}

NoCode == VCPCode("", "", -1, "rw", "nc")

RegObs(op, key, code, outcome) ==
    [op |-> op, key |-> key, code |-> code, outcome |-> outcome]

session_unchanged ==
    UNCHANGED <<in_ctx, code_maximum, session_reads, last, platform, sessions, disc_last>>

(***************************************************************************)
(* Registry actions.                                                       *)
(***************************************************************************)
Register(newcode) ==
    LET r == add_vcp_code(registry, newcode)
    IN  /\ registry' = r.codes
        /\ reg_last' = RegObs("add_vcp_code", IntV(0), newcode,
                              IF r.err = "" THEN "ok" ELSE r.err)
        /\ session_unchanged

Lookup(key) ==
    LET r == get_vcp_code(registry, key)
    IN  /\ reg_last' = RegObs("get_vcp_code", key,
                              IF r.err = "" THEN r.code ELSE NoCode,
                              IF r.err = "" THEN "ok" ELSE r.err)
        /\ UNCHANGED registry
        /\ session_unchanged

(***************************************************************************)
(* monitorcontrol.py: the enumerations.  A member is [name, value].        *)
(***************************************************************************)
Member(name, value) == [name |-> name, value |-> value]

ColorPreset ==
    { Member("COLOR_TEMP_4000K", 3), Member("COLOR_TEMP_5000K", 4),
      Member("COLOR_TEMP_6500K", 5), Member("COLOR_TEMP_7500K", 6),
      Member("COLOR_TEMP_8200K", 7), Member("COLOR_TEMP_9300K", 8),
      Member("COLOR_TEMP_10000K", 9), Member("COLOR_TEMP_11500K", 10),
      Member("COLOR_TEMP_USER1", 11), Member("COLOR_TEMP_USER2", 12),
      Member("COLOR_TEMP_USER3", 13) }

PowerMode ==
    { Member("on", 1), Member("standby", 2), Member("suspend", 3),
      Member("off_soft", 4), Member("off_hard", 5) }

InputSource ==
    { Member("OFF", 0), Member("ANALOG1", 1), Member("ANALOG2", 2),
      Member("DVI1", 3), Member("DVI2", 4), Member("COMPOSITE1", 5),
      Member("COMPOSITE2", 6), Member("SVIDEO1", 7), Member("SVIDEO2", 8),
      Member("TUNER1", 9), Member("TUNER2", 10), Member("TUNER3", 11),
      Member("CMPONENT1", 12), Member("CMPONENT2", 13), Member("CMPONENT3", 14),
      Member("DP1", 15), Member("DP2", 16), Member("HDMI1", 17),
      Member("HDMI2", 18) }

\* Enum(value): the member with that value, else ValueError
Enum_call(E, v) ==
    IF \E m \in E : m.value = v
    THEN [err |-> "", member |-> CHOOSE m \in E : m.value = v]
    ELSE [err |-> "InvalidValue", member |-> Member("", v)]

\* getattr(Enum, name).value: the member of that exact name, else AttributeError
Enum_getattr(E, s) ==
    IF \E m \in E : m.name = s
    THEN [err |-> "", member |-> CHOOSE m \in E : m.name = s]
    ELSE [err |-> "UnknownName", member |-> Member(s, 0)]

\* str.upper() on the strings the model passes to set_input_source
upper(s) ==
    CASE s = "hdmi1" -> "HDMI1"
      [] s = "Dp1"   -> "DP1"
      [] s = "off"   -> "OFF"
      [] s = "bogus" -> "BOGUS"
      [] OTHER       -> s

\* value & 0xFF
mask8(v) == v % 256

(***************************************************************************)
(* Observation of one session / accessor call: the operation, its input,   *)
(* the opcode it addressed (-1: none), its outcome ("ok" or the error),    *)
(* the value and enumeration member returned or carried, what the caller   *)
(* took from the transport's reply (-1: nothing), the number of transport  *)
(* reads and the transport write (<<opcode, value>>) the call performed.   *)
(***************************************************************************)
NoValue == [t |-> "none", cls |-> "", s |-> "", v |-> 0]

NoWrite == << >>

Obs(op, input, code, outcome, value, member, raw_current, raw_maximum, reads, wrote) ==
    [op |-> op, input |-> input, code |-> code, outcome |-> outcome,
     value |-> value, member |-> member, raw_current |-> raw_current,
     raw_maximum |-> raw_maximum, reads |-> reads, wrote |-> wrote]

(***************************************************************************)
(* The platform transports (vcp_linux, vcp_windows) implement the abstract *)
(* get_vcp_feature / set_vcp_feature of VCP; their files are not part of   *)
(* the sources at hand, so both follow the session contract: NotOpen       *)
(* outside an open session, NotReadable / NotWritable by the code's access *)
(* mode, otherwise the device's reply is returned / the value is written.  *)
(* reply = [current, maximum] is what the device reports for the opcode.   *)
(***************************************************************************)
get_vcp_feature(inctx, code, reply) ==
    IF ~inctx THEN [err |-> "NotOpen", current |-> 0, maximum |-> 0, reads |-> 0]
    ELSE IF ~readable(code)
    THEN [err |-> "NotReadable", current |-> 0, maximum |-> 0, reads |-> 0]
    ELSE [err |-> "", current |-> reply.current, maximum |-> reply.maximum, reads |-> 1]

set_vcp_feature(inctx, code, value) ==
    IF ~inctx THEN [err |-> "NotOpen", wrote |-> NoWrite]
    ELSE IF ~writeable(code) THEN [err |-> "NotWritable", wrote |-> NoWrite]
    ELSE [err |-> "", wrote |-> <<code.value, value>>]

\* self.vcp.get_vcp_feature(code.value) of _get_code_maximum: the session's
\* transport handle is asked with the bare opcode (an integer carries no
\* access mode, so nothing is checked against readable()); the exchange
\* returns the device's reply
transport_read(opcode, reply) ==
    [current |-> reply.current, maximum |-> reply.maximum, reads |-> 1]

(***************************************************************************)
(* vcp_abc.py: VCP                                                         *)
(***************************************************************************)
EmptyCache == [v \in {} |-> 0]

\* __init__
VCP_init == [code_maximum |-> EmptyCache, in_ctx |-> FALSE]

\* __enter__
VCP_enter(inctx, cache) == [in_ctx |-> TRUE, code_maximum |-> cache]

\* __exit__: the flag is cleared; code_maximum is not touched
VCP_exit(inctx, cache) == [in_ctx |-> FALSE, code_maximum |-> cache]

\* `code.readable` in `if not code.readable:`: readable is a method of the
\* dataclass and is not called there, so the test sees the bound method
\* object, which is true for every code
readable_attr(code) == TRUE

\* a plausible slip: the assertion on _in_ctx left out
get_code_maximum_no_assert(inctx, cache, code, reply) ==
    IF ~readable_attr(code)
    THEN [err |-> "NotReadable", value |-> 0, raw |-> -1, reads |-> 0, cache |-> cache]
    ELSE IF code.value \in DOMAIN cache
    THEN [err |-> "", value |-> cache[code.value], raw |-> -1, reads |-> 0, cache |-> cache]
    ELSE LET r == transport_read(code.value, reply)
         IN  [err |-> "", value |-> r.maximum, raw |-> r.maximum, reads |-> r.reads,
              cache |-> (code.value :> r.maximum) @@ cache]

\* _get_code_maximum
get_code_maximum(inctx, cache, code, reply) ==
    IF ~inctx
    THEN [err |-> "NotOpen", value |-> 0, raw |-> -1, reads |-> 0, cache |-> cache]
    ELSE IF ~readable_attr(code)
    THEN [err |-> "NotReadable", value |-> 0, raw |-> -1, reads |-> 0, cache |-> cache]
    ELSE IF code.value \in DOMAIN cache
    THEN [err |-> "", value |-> cache[code.value], raw |-> -1, reads |-> 0, cache |-> cache]
    ELSE LET r == transport_read(code.value, reply)
         IN  [err |-> "", value |-> r.maximum, raw |-> r.maximum, reads |-> r.reads,
              cache |-> (code.value :> r.maximum) @@ cache]

(***************************************************************************)
(* monitorcontrol.py: Monitor.  self.vcp is the session.  Every accessor   *)
(* names its code as vcp.VCPCode("<registry name>"), with the name alone:  *)
(* that is the registry's entry of that name (get_vcp_code by name).       *)
(***************************************************************************)
CodeNamed(codes, name) == get_vcp_code(codes, StrV(name)).code

\* a getter whose get_vcp_feature call failed with err
ReadFailed(op, code, err) ==
    Obs(op, NoValue, code.value, err, 0, "", -1, -1, 0, NoWrite)

\* a setter that raised err before it reached set_vcp_feature
Rejected(op, input, err) ==
    Obs(op, input, -1, err, 0, "", -1, -1, 0, NoWrite)

\* code = vcp.VCPCode(name); self.vcp.set_vcp_feature(code, mode_value)
WriteFeature(op, input, codes, inctx, name, mode_value) ==
    LET code == CodeNamed(codes, name)
        w == set_vcp_feature(inctx, code, mode_value)
    IN  Obs(op, input, code.value, IF w.err = "" THEN "ok" ELSE w.err,
            mode_value, "", -1, -1, 0, w.wrote)

get_luminance(codes, inctx, reply) ==
    LET code == CodeNamed(codes, "image_luminance")
        r == get_vcp_feature(inctx, code, reply)
    IN  IF r.err /= "" THEN ReadFailed("get_luminance", code, r.err)
        ELSE Obs("get_luminance", NoValue, code.value, "ok", r.current, "",
                 r.current, -1, r.reads, NoWrite)

set_luminance(codes, inctx, value) ==
    WriteFeature("set_luminance", value, codes, inctx, "image_luminance", value.v)

get_color_preset(codes, inctx, reply) ==
    LET code == CodeNamed(codes, "image_color_preset")
        r == get_vcp_feature(inctx, code, reply)
    IN  IF r.err /= "" THEN ReadFailed("get_color_preset", code, r.err)
        ELSE Obs("get_color_preset", NoValue, code.value, "ok", r.current, "",
                 r.current, -1, r.reads, NoWrite)

\* a plausible slip: the code name copied from set_contrast
set_color_preset_wrong_code(codes, inctx, value) ==
    LET n == IF value.t = "str" THEN Enum_getattr(ColorPreset, value.s)
             ELSE IF value.t = "int" THEN Enum_call(ColorPreset, value.v)
             ELSE IF value.t = "enum" /\ value.cls = "ColorPreset"
                  THEN [err |-> "", member |-> Member(value.s, value.v)]
             ELSE [err |-> "UnsupportedValueType", member |-> Member("", 0)]
    IN  IF n.err /= "" THEN Rejected("set_color_preset", value, n.err)
        ELSE WriteFeature("set_color_preset", value, codes, inctx,
                          "image_contrast", n.member.value)

set_color_preset(codes, inctx, value) ==
    LET n == IF value.t = "str" THEN Enum_getattr(ColorPreset, value.s)
             ELSE IF value.t = "int" THEN Enum_call(ColorPreset, value.v)
             ELSE IF value.t = "enum" /\ value.cls = "ColorPreset"
                  THEN [err |-> "", member |-> Member(value.s, value.v)]
             ELSE [err |-> "UnsupportedValueType", member |-> Member("", 0)]
    IN  IF n.err /= "" THEN Rejected("set_color_preset", value, n.err)
        ELSE WriteFeature("set_color_preset", value, codes, inctx,
                          "image_color_preset", n.member.value)

get_contrast(codes, inctx, reply) ==
    LET code == CodeNamed(codes, "image_contrast")
        r == get_vcp_feature(inctx, code, reply)
    IN  IF r.err /= "" THEN ReadFailed("get_contrast", code, r.err)
        ELSE Obs("get_contrast", NoValue, code.value, "ok", r.current, "",
                 r.current, -1, r.reads, NoWrite)

set_contrast(codes, inctx, value) ==
    WriteFeature("set_contrast", value, codes, inctx, "image_contrast", value.v)

get_power_mode(codes, inctx, reply) ==
    LET code == CodeNamed(codes, "display_power_mode")
        r == get_vcp_feature(inctx, code, reply)
        m == Enum_call(PowerMode, r.current)
    IN  IF r.err /= "" THEN ReadFailed("get_power_mode", code, r.err)
        ELSE IF m.err /= ""
        THEN Obs("get_power_mode", NoValue, code.value, m.err, r.current, "",
                 r.current, -1, r.reads, NoWrite)
        ELSE Obs("get_power_mode", NoValue, code.value, "ok", m.member.value,
                 m.member.name, r.current, -1, r.reads, NoWrite)

\* a plausible slip: the integer passed through as set_input_source does
set_power_mode_unvalidated(codes, inctx, value) ==
    LET n == IF value.t = "str" THEN Enum_getattr(PowerMode, value.s)
             ELSE IF value.t = "int" THEN [err |-> "", member |-> Member("", value.v)]
             ELSE IF value.t = "enum" /\ value.cls = "PowerMode"
                  THEN [err |-> "", member |-> Member(value.s, value.v)]
             ELSE [err |-> "UnsupportedValueType", member |-> Member("", 0)]
    IN  IF n.err /= "" THEN Rejected("set_power_mode", value, n.err)
        ELSE WriteFeature("set_power_mode", value, codes, inctx,
                          "display_power_mode", n.member.value)

set_power_mode(codes, inctx, value) ==
    LET n == IF value.t = "str" THEN Enum_getattr(PowerMode, value.s)
             ELSE IF value.t = "int" THEN Enum_call(PowerMode, value.v)
             ELSE IF value.t = "enum" /\ value.cls = "PowerMode"
                  THEN [err |-> "", member |-> Member(value.s, value.v)]
             ELSE [err |-> "UnsupportedValueType", member |-> Member("", 0)]
    IN  IF n.err /= "" THEN Rejected("set_power_mode", value, n.err)
        ELSE WriteFeature("set_power_mode", value, codes, inctx,
                          "display_power_mode", n.member.value)

\* a plausible slip: the mask to the low byte left out
get_input_source_unmasked(codes, inctx, reply) ==
    LET code == CodeNamed(codes, "input_select")
        r == get_vcp_feature(inctx, code, reply)
        value == r.current
        m == Enum_call(InputSource, value)
    IN  IF r.err /= "" THEN ReadFailed("get_input_source", code, r.err)
        ELSE IF m.err /= ""
        THEN Obs("get_input_source", NoValue, code.value, "OutOfSpecInputSource",
                 value, "", r.current, -1, r.reads, NoWrite)
        ELSE Obs("get_input_source", NoValue, code.value, "ok", m.member.value,
                 m.member.name, r.current, -1, r.reads, NoWrite)

\* the ValueError of InputSource(value) is caught and InputSourceValueError,
\* which carries value, is raised in its place
get_input_source(codes, inctx, reply) ==
    LET code == CodeNamed(codes, "input_select")
        r == get_vcp_feature(inctx, code, reply)
        value == mask8(r.current)
        m == Enum_call(InputSource, value)
    IN  IF r.err /= "" THEN ReadFailed("get_input_source", code, r.err)
        ELSE IF m.err /= ""
        THEN Obs("get_input_source", NoValue, code.value, "OutOfSpecInputSource",
                 value, "", r.current, -1, r.reads, NoWrite)
        ELSE Obs("get_input_source", NoValue, code.value, "ok", m.member.value,
                 m.member.name, r.current, -1, r.reads, NoWrite)

\* a plausible slip: the final else writes the value instead of raising
set_input_source_no_type_check(codes, inctx, value) ==
    LET n == IF value.t = "str" THEN Enum_getattr(InputSource, upper(value.s))
             ELSE IF value.t = "int" THEN [err |-> "", member |-> Member("", value.v)]
             ELSE [err |-> "", member |-> Member(value.s, value.v)]
    IN  IF n.err /= "" THEN Rejected("set_input_source", value, n.err)
        ELSE WriteFeature("set_input_source", value, codes, inctx,
                          "input_select", n.member.value)

\* an integer is written as it is: no InputSource(value) here
set_input_source(codes, inctx, value) ==
    LET n == IF value.t = "str" THEN Enum_getattr(InputSource, upper(value.s))
             ELSE IF value.t = "int" THEN [err |-> "", member |-> Member("", value.v)]
             ELSE IF value.t = "enum" /\ value.cls = "InputSource"
                  THEN [err |-> "", member |-> Member(value.s, value.v)]
             ELSE [err |-> "UnsupportedValueType", member |-> Member("", 0)]
    IN  IF n.err /= "" THEN Rejected("set_input_source", value, n.err)
        ELSE WriteFeature("set_input_source", value, codes, inctx,
                          "input_select", n.member.value)

(***************************************************************************)
(* Inputs of the session and accessor calls.                               *)
(***************************************************************************)
\* a code no registry entry describes, built by the caller
UnregisteredCode == VCPCode("user_unregistered", "user code", 225, "rw", "c")

\* codes passed to get_vcp_feature / set_vcp_feature directly
FeatureCodes ==
    { CodeNamed(VCP_CODES, "image_factory_default"),
      CodeNamed(VCP_CODES, "image_luminance"),
      CodeNamed(VCP_CODES, "active_control"),
      UnregisteredCode }

\* codes passed to _get_code_maximum
CachedCodes ==
    { CodeNamed(VCP_CODES, "image_factory_default"),
      CodeNamed(VCP_CODES, "image_luminance") }

CachedOpcodes == {c.value : c \in CachedCodes}

\* maxima the device reports
MaxValues == {100, 255}

\* current values the device reports for input_select: every MCCS value, one
\* past them, 0x7F, and 0x111 / 0x17F / 0x100 whose low bytes are 0x11 / 0x7F / 0
InputReplies ==
    {[current |-> c, maximum |-> 255] : c \in (0..MaxWire) \cup {127, 256, 273, 383}}

\* current values the device reports for the other codes
Replies == [current : {0, 2, 50, 127}, maximum : MaxValues]

\* integers passed to the typed setters
IntInputs == {IntV(v) : v \in (0..MaxWire) \cup {127}}

\* a float, and members of the other enumerations
SampleMembers ==
    { EnumV("PowerMode", Member("on", 1)),
      EnumV("ColorPreset", Member("COLOR_TEMP_5000K", 4)),
      EnumV("InputSource", Member("HDMI1", 17)) }

OtherTypeInputs(cls) == {FloatV(4)} \cup {e \in SampleMembers : e.cls /= cls}

ColorPresetInputs ==
    IntInputs
    \cup {StrV(m.name) : m \in ColorPreset}
    \cup {StrV("color_temp_5000k"), StrV("bogus")}
    \cup {EnumV("ColorPreset", m) : m \in ColorPreset}
    \cup OtherTypeInputs("ColorPreset")

PowerModeInputs ==
    IntInputs
    \cup {StrV(m.name) : m \in PowerMode}
    \cup {StrV("STANDBY"), StrV("bogus")}
    \cup {EnumV("PowerMode", m) : m \in PowerMode}
    \cup OtherTypeInputs("PowerMode")

InputSourceInputs ==
    IntInputs
    \cup {StrV(s) : s \in {"HDMI1", "hdmi1", "Dp1", "off", "bogus"}}
    \cup {EnumV("InputSource", m) : m \in InputSource}
    \cup OtherTypeInputs("InputSource")

LevelInputs == {IntV(0), IntV(50)}

(***************************************************************************)
(* Session actions.                                                        *)
(***************************************************************************)
registry_unchanged == UNCHANGED <<registry, reg_last, platform, sessions, disc_last>>

SessionObs(op) == Obs(op, NoValue, -1, "ok", 0, "", -1, -1, 0, NoWrite)

Enter ==
    LET s == VCP_enter(in_ctx, code_maximum)
    IN  /\ in_ctx' = s.in_ctx
        /\ code_maximum' = s.code_maximum
        /\ session_reads' = IF in_ctx THEN session_reads
                            ELSE [c \in CachedOpcodes |-> 0]
        /\ last' = SessionObs("enter")
        /\ registry_unchanged

Exit ==
    LET s == VCP_exit(in_ctx, code_maximum)
    IN  /\ in_ctx' = s.in_ctx
        /\ code_maximum' = s.code_maximum
        /\ last' = SessionObs("exit")
        /\ UNCHANGED session_reads
        /\ registry_unchanged

\* a call that leaves the session as it is
Call(obs) ==
    /\ last' = obs
    /\ UNCHANGED <<in_ctx, code_maximum, session_reads>>
    /\ registry_unchanged

GetVcpFeature(code, reply) ==
    LET r == get_vcp_feature(in_ctx, code, reply)
    IN  Call(IF r.err /= "" THEN ReadFailed("get_vcp_feature", code, r.err)
             ELSE Obs("get_vcp_feature", NoValue, code.value, "ok", r.current, "",
                      r.current, r.maximum, r.reads, NoWrite))

SetVcpFeature(code, value) ==
    LET w == set_vcp_feature(in_ctx, code, value.v)
    IN  Call(Obs("set_vcp_feature", value, code.value,
                 IF w.err = "" THEN "ok" ELSE w.err, value.v, "", -1, -1, 0, w.wrote))

GetCodeMaximum(code, reply) ==
    LET r == get_code_maximum(in_ctx, code_maximum, code, reply)
    IN  /\ session_reads[code.value] + r.reads <= MaxSessionReads
        /\ code_maximum' = r.cache
        /\ session_reads' = [session_reads EXCEPT ![code.value] = @ + r.reads]
        /\ last' = Obs("get_code_maximum", NoValue, code.value,
                       IF r.err = "" THEN "ok" ELSE r.err, r.value, "",
                       -1, r.raw, r.reads, NoWrite)
        /\ UNCHANGED in_ctx
        /\ registry_unchanged

GetLuminance(reply) == Call(get_luminance(registry, in_ctx, reply))

SetLuminance(value) == Call(set_luminance(registry, in_ctx, value))

GetColorPreset(reply) == Call(get_color_preset(registry, in_ctx, reply))

SetColorPreset(value) == Call(set_color_preset(registry, in_ctx, value))

GetContrast(reply) == Call(get_contrast(registry, in_ctx, reply))

SetContrast(value) == Call(set_contrast(registry, in_ctx, value))

GetPowerMode(reply) == Call(get_power_mode(registry, in_ctx, reply))

SetPowerMode(value) == Call(set_power_mode(registry, in_ctx, value))

GetInputSource(reply) == Call(get_input_source(registry, in_ctx, reply))

SetInputSource(value) == Call(set_input_source(registry, in_ctx, value))

(***************************************************************************)
(* Discovery: vcp/__init__.py and get_vcps / get_monitors of               *)
(* monitorcontrol.py.                                                      *)
(***************************************************************************)
\* values of sys.platform
Platforms == {"win32", "linux", "linux2", "darwin", "freebsd13"}

\* sys.platform.startswith("linux") on the platforms above
startswith_linux(p) ==
    CASE p = "linux"  -> TRUE
      [] p = "linux2" -> TRUE
      [] OTHER        -> FALSE

\* vcp/__init__.py: the package binds the name get_vcps on win32 and on
\* linux*; on every other platform the else branch defines get_vpcs, so the
\* package has no attribute get_vcps there
vcp_has_get_vcps(p) == p = "win32" \/ startswith_linux(p)

\* the platform's enumeration (vcp_windows.get_vcps / vcp_linux.get_vcps, not
\* in the sources at hand): one freshly constructed VCP per display found
platform_get_vcps(n) == [i \in 1..n |-> VCP_init]

\* the expression vcp.get_vcps() on a machine with n displays
vcp_get_vcps(p, n) ==
    IF vcp_has_get_vcps(p)
    THEN [err |-> "", vcps |-> platform_get_vcps(n)]
    ELSE [err |-> "AttributeError", vcps |-> << >>]

\* monitorcontrol.get_vcps
get_vcps(p, n) ==
    IF p = "win32" \/ startswith_linux(p)
    THEN vcp_get_vcps(p, n)
    ELSE [err |-> "UnsupportedPlatform", vcps |-> << >>]

\* monitorcontrol.get_monitors: [Monitor(v) for v in vcp.get_vcps()], with no
\* test of sys.platform; a Monitor holds its VCP and nothing else
get_monitors(p, n) == vcp_get_vcps(p, n)

DiscObs(op, outcome, returned) ==
    [op |-> op, outcome |-> outcome, returned |-> returned]

single_session_unchanged ==
    UNCHANGED <<registry, reg_last, in_ctx, code_maximum, session_reads, last>>

Discover(op, r) ==
    /\ disc_last' = DiscObs(op, IF r.err = "" THEN "ok" ELSE r.err, r.vcps)
    /\ sessions' = r.vcps
    /\ UNCHANGED platform
    /\ single_session_unchanged

GetVcps(n) == Discover("get_vcps", get_vcps(platform, n))

GetMonitors(n) == Discover("get_monitors", get_monitors(platform, n))

\* the caller uses the i-th VCP it was handed
SessionEnter(i) ==
    /\ sessions' = [sessions EXCEPT ![i] = VCP_enter(@.in_ctx, @.code_maximum)]
    /\ UNCHANGED <<platform, disc_last>>
    /\ single_session_unchanged

SessionExit(i) ==
    /\ sessions' = [sessions EXCEPT ![i] = VCP_exit(@.in_ctx, @.code_maximum)]
    /\ UNCHANGED <<platform, disc_last>>
    /\ single_session_unchanged

SessionGetCodeMaximum(i, code, reply) ==
    LET r == get_code_maximum(sessions[i].in_ctx, sessions[i].code_maximum, code, reply)
    IN  /\ sessions' = [sessions EXCEPT ![i].code_maximum = r.cache]
        /\ UNCHANGED <<platform, disc_last>>
        /\ single_session_unchanged

(***************************************************************************)
(* Specifications.  Spec: one session and the Monitor on it, over the      *)
(* preloaded registry.  RegistrySpec: the registry under add_vcp_code and  *)
(* get_vcp_code.  DiscoverySpec: get_vcps / get_monitors on any platform,  *)
(* and the use of the VCPs they return.                                    *)
(***************************************************************************)
InitOn(p) ==
    /\ registry = VCP_CODES
    /\ reg_last = RegObs("init", NoValue, NoCode, "ok")
    /\ in_ctx = VCP_init.in_ctx
    /\ code_maximum = VCP_init.code_maximum
    /\ session_reads = [c \in CachedOpcodes |-> 0]
    /\ last = SessionObs("init")
    /\ platform = p
    /\ sessions = << >>
    /\ disc_last = DiscObs("init", "ok", << >>)

Init == InitOn("linux")

Next ==
    \/ Enter
    \/ Exit
    \/ \E code \in FeatureCodes, reply \in Replies : GetVcpFeature(code, reply)
    \/ \E code \in FeatureCodes, value \in LevelInputs : SetVcpFeature(code, value)
    \/ \E code \in CachedCodes, reply \in Replies : GetCodeMaximum(code, reply)
    \/ \E reply \in Replies : GetLuminance(reply)
    \/ \E value \in LevelInputs : SetLuminance(value)
    \/ \E reply \in Replies : GetColorPreset(reply)
    \/ \E value \in ColorPresetInputs : SetColorPreset(value)
    \/ \E reply \in Replies : GetContrast(reply)
    \/ \E value \in LevelInputs : SetContrast(value)
    \/ \E reply \in Replies : GetPowerMode(reply)
    \/ \E value \in PowerModeInputs : SetPowerMode(value)
    \/ \E reply \in InputReplies : GetInputSource(reply)
    \/ \E value \in InputSourceInputs : SetInputSource(value)

Spec == Init /\ [][Next]_vars

RegistryNext ==
    \/ \E newcode \in NewCodes : Register(newcode)
    \/ \E key \in LookupKeys : Lookup(key)

RegistrySpec == Init /\ [][RegistryNext]_vars

DiscoveryInit == \E p \in Platforms : InitOn(p)

DiscoveryNext ==
    \/ \E n \in 0..MaxDisplays : GetVcps(n)
    \/ \E n \in 0..MaxDisplays : GetMonitors(n)
    \/ \E i \in 1..Len(sessions) : SessionEnter(i)
    \/ \E i \in 1..Len(sessions) : SessionExit(i)
    \/ \E i \in 1..Len(sessions), code \in CachedCodes, reply \in Replies :
          SessionGetCodeMaximum(i, code, reply)

DiscoverySpec == DiscoveryInit /\ [][DiscoveryNext]_vars

(***************************************************************************)
(* Properties.                                                             *)
(***************************************************************************)
SessionOps == {"init", "enter", "exit"}

C2_ExitClearsCache ==
    last.op = "exit" => (~in_ctx /\ code_maximum = EmptyCache)

\* C3: between one enter and the following exit, a successful
\* _get_code_maximum call for a code leaves exactly one transport read issued
\* for that code in this session (the first call read once, no later call
\* read), performs at most one read itself, and returns the value cached
\* under code.value.
C3_OneReadPerCodePerSession ==
    (last.op = "get_code_maximum" /\ last.outcome = "ok")
        => (/\ session_reads[last.code] = 1
            /\ last.reads <= 1
            /\ last.code \in DOMAIN code_maximum
            /\ last.value = code_maximum[last.code]
            /\ (last.reads = 1 => last.value = last.raw_maximum))

EnumSetters == {"set_color_preset", "set_power_mode", "set_input_source"}

\* the wire values of the setter's enumeration, and its feature opcode
KnownWire(op) ==
    CASE op = "set_color_preset" -> 3..13
      [] op = "set_power_mode"   -> 1..5
      [] op = "set_input_source" -> 0..18

SetterOpcode(op) ==
    CASE op = "set_color_preset" -> 20
      [] op = "set_power_mode"   -> 214
      [] op = "set_input_source" -> 96

SetterEnum(op) ==
    CASE op = "set_color_preset" -> "ColorPreset"
      [] op = "set_power_mode"   -> "PowerMode"
      [] op = "set_input_source" -> "InputSource"

UnsupportedInput(op, input) ==
    /\ input.t /= "int"
    /\ input.t /= "str"
    /\ ~(input.t = "enum" /\ input.cls = SetterEnum(op))

\* C6: a typed setter called with a value that is neither an integer, a
\* string nor a member of its own enumeration fails with
\* UnsupportedValueType; the call performs no transport write and no
\* transport read and leaves the session (open flag, cache) as it was.
C6_UnsupportedTypeNoWrite ==
    [][ (last'.op \in EnumSetters /\ UnsupportedInput(last'.op, last'.input))
            => (/\ last'.outcome = "UnsupportedValueType"
                /\ last'.wrote = NoWrite
                /\ last'.reads = 0
                /\ in_ctx' = in_ctx
                /\ code_maximum' = code_maximum) ]_vars

\* C6 witness: a float refused by set_input_source on an open session whose
\* cache holds an entry.
C6_Witness ==
    /\ in_ctx
    /\ DOMAIN code_maximum /= {}
    /\ last.op = "set_input_source"
    /\ last.input.t = "float"
    /\ last.outcome = "UnsupportedValueType"

\* the three forms in which a caller names member m
FormsOf(cls, m) == {IntV(m.value), StrV(m.name), EnumV(cls, m)}

Collides(codes, newcode) ==
    \E i \in 1..Len(codes) :
        codes[i].name = newcode.name \/ codes[i].value = newcode.value

\* C8: add_vcp_code with a code whose name or value equals that of an
\* existing entry fails with DuplicateName or DuplicateValue (and an entry of
\* that name, respectively value, exists) and leaves the registry exactly as
\* it was.
C8_CollisionLeavesRegistry ==
    [][ (reg_last'.op = "add_vcp_code" /\ Collides(registry, reg_last'.code))
            => (/\ reg_last'.outcome \in {"DuplicateName", "DuplicateValue"}
                /\ reg_last'.outcome = "DuplicateName"
                      => \E i \in 1..Len(registry) : registry[i].name = reg_last'.code.name
                /\ reg_last'.outcome = "DuplicateValue"
                      => \E i \in 1..Len(registry) : registry[i].value = reg_last'.code.value
                /\ registry' = registry) ]_vars

\* C8 witness: a refused code that shares its name with one entry and its
\* value with another, after a code was registered.
C8_Witness ==
    /\ reg_last.op = "add_vcp_code"
    /\ reg_last.outcome = "DuplicateValue"
    /\ Len(registry) > Len(VCP_CODES)
    /\ \E i, j \in 1..Len(registry) :
          /\ i /= j
          /\ registry[i].name = reg_last.code.name
          /\ registry[j].value = reg_last.code.value

\* C9: in every registry state no two entries share a name, no two share a
\* value, and the preloaded table is still the registry's unmodified prefix.
C9_RegistryUnique ==
    /\ \A i, j \in 1..Len(registry) :
          i /= j => (/\ registry[i].name /= registry[j].name
                     /\ registry[i].value /= registry[j].value)
    /\ Len(registry) >= Len(VCP_CODES)
    /\ SubSeq(registry, 1, Len(VCP_CODES)) = VCP_CODES

\* C9 witness: two codes were registered and a third was refused.
C9_Witness ==
    /\ Len(registry) = Len(VCP_CODES) + 2
    /\ reg_last.op = "add_vcp_code"
    /\ reg_last.outcome = "DuplicateName"

\* the declared access mode of the preloaded codes: <<readable, writable>>
DeclaredAccess(name) ==
    CASE name = "image_factory_default" -> <<FALSE, TRUE>>
      [] name = "image_luminance"       -> <<TRUE, TRUE>>
      [] name = "image_contrast"        -> <<TRUE, TRUE>>
      [] name = "image_color_preset"    -> <<TRUE, TRUE>>
      [] name = "active_control"        -> <<TRUE, FALSE>>
      [] name = "input_select"          -> <<TRUE, TRUE>>
      [] name = "image_orientation"     -> <<TRUE, FALSE>>
      [] name = "display_power_mode"    -> <<TRUE, TRUE>>

C11_DiscoveryUnsupportedPlatform ==
    disc_last.op \in {"get_vcps", "get_monitors"}
        => IF platform \in {"win32", "linux", "linux2"}
           THEN /\ disc_last.outcome = "ok"
                /\ \A i \in 1..Len(disc_last.returned) :
                      /\ disc_last.returned[i].in_ctx = FALSE
                      /\ disc_last.returned[i].code_maximum = EmptyCache
           ELSE disc_last.outcome = "UnsupportedPlatform"

\* C12: inside an open session, _get_code_maximum called with a code that
\* is not readable (access mode wo, e.g. image_factory_default) fails with
\* NotReadable, performs no transport read and leaves the maximum-value
\* cache as it was.
C12_WriteOnlyCodeRefused ==
    [][ (/\ in_ctx
         /\ last'.op = "get_code_maximum"
         /\ \E c \in CachedCodes : c.value = last'.code /\ c.type = "wo")
            => (/\ last'.outcome = "NotReadable"
                /\ last'.reads = 0
                /\ code_maximum' = code_maximum) ]_vars

====
